---- MODULE Spec2Model ----
(***************************************************************************)
(* Model of the ACME client: the command line driver (bin.rs main), the    *)
(* issuance flow (lib.rs generate_certificate_for_domain), the exchanges   *)
(* of acc.rs and the signing / response helpers of util.rs.                *)
(*                                                                         *)
(* The certificate authority is the environment: every exchange draws the  *)
(* CA's response from a small set (transport failure, header present /     *)
(* absent / unreadable, body a problem document or the expected JSON).     *)
(* Every request sent is appended to `log` together with its response.     *)
(***************************************************************************)
EXTENDS Integers, Sequences, FiniteSets, TLC

\* ------------------------------------------------------------------ bounds
\* Number of authorization polls solve_http_challenge makes before it gives up.
MaxPolls == 3
\* Largest number of authorization URLs the CA puts in an order.
MaxAuthz == 2

\* ------------------------------------------------------- program constants
LETS_ENCRYPT_SERVER == "https://acme-v02.api.letsencrypt.org/directory"

\* The statuses serde accepts for StatusType.
StatusType == {"valid", "pending", "invalid"}

\* The error kinds of error.rs (the CA problem kinds and the local kinds).
ErrorKinds ==
  {"AccountDoesNotExist", "AlreadyRevokedCertificate", "BadCSR", "BadNonce",
   "BadPublicKey", "BadRevocationReason", "BadSignatureAlgorithm", "CaaError",
   "Compound", "Connection", "DnsError", "ExternalAccountRequired",
   "IncorrectResponse", "InvalidContact", "MalformedRequest", "OrderNotReady",
   "RateLimited", "RejectedIdentifier", "InternalServerError", "TlsError",
   "Unauthorized", "UnsupportedContact", "UnsupportedIdentifier",
   "UserActionRequired", "FromUtf8Error", "FromReqwestError", "FromRsaError",
   "FromSerdeError", "FromToStrError", "FromIoError",
   "NoHttpChallengePresent", "NoWebServer"}

\* ------------------------------------------------------------ environment
\* Statuses a CA may put in an order or authorization object (RFC 8555).
CAStatuses == {"pending", "ready", "processing", "valid", "invalid"}

\* A header that the response does not carry / carries with non-visible bytes.
NoHeader  == "<absent>"
BadHeader == "<not-visible-ascii>"

CustomServer == "https://ca.example/directory"
AuthzUrls    == [i \in 1..MaxAuthz |-> "https://ca/authz/" \o ToString(i)]
FinalizeUrl  == "https://ca/order/1/finalize"
ChallengeUrl == "https://ca/chall/1"
CertUrl      == "https://ca/cert/1"
AcctUrl      == "https://ca/acct/1"
Domain       == "example.org"
Email        == "admin@example.org"

\* The k-th nonce the CA issues.
NonceStr(k) == "nonce-" \o ToString(k)

\* The directory object the CA serves.
DirBody ==
  [kind |-> "directory", new_nonce |-> "https://ca/new-nonce",
   new_account |-> "https://ca/new-acct", new_order |-> "https://ca/new-order",
   revoke_cert |-> "https://ca/revoke", key_change |-> "https://ca/key-change"]

ProblemBody == [kind |-> "problem", type |-> "urn:ietf:params:acme:error:badNonce"]

AccountBody == [kind |-> "account", status |-> "valid"]

OrderBody(n) ==
  [kind |-> "order", status |-> "pending",
   authorizations |-> SubSeq(AuthzUrls, 1, n), finalize |-> FinalizeUrl]

AuthzBody(st, http01) ==
  [kind |-> "authorization", status |-> st, http01 |-> http01,
   token |-> "abc123", url |-> ChallengeUrl, authz |-> AuthzUrls[1]]

\* The certificate URL of an order that has none yet.
NoUrl == ""

UpdatedOrderBody(st) ==
  [kind |-> "updated_order", status |-> st,
   certificate |-> IF st = "valid" THEN CertUrl ELSE NoUrl]

PemBody == [kind |-> "pem", text |-> "-----BEGIN CERTIFICATE-----"]

\* The response of a request that never got one (send() failed).
NoResponse ==
  [sent |-> FALSE, replay_nonce |-> NoHeader, location |-> NoHeader,
   body |-> [kind |-> "none"]]

\* The responses the CA may give when its next fresh nonce is NonceStr(k).
Responses(k, bodies, locations) ==
  {NoResponse} \cup
  [sent : {TRUE}, replay_nonce : {NoHeader, BadHeader, NonceStr(k)},
   location : locations, body : bodies]

\* Number of nonces a response consumes at the CA.
Issued(resp) == IF resp.replay_nonce \in {NoHeader, BadHeader} THEN 0 ELSE 1

\* ------------------------------------------------------------------ codec
\* util.rs b64: base64url without padding (an injective encoding, not the identity).
b64(bytes) == <<"b64", bytes>>

\* serde_json::to_string_pretty
to_string_pretty(value) == <<"json", value>>

\* The empty JSON string, json!("").
EmptyPayload == [kind |-> "string", value |-> ""]

\* The empty text "" (encoded texts are tuples, so is the empty one).
EmptyString == <<>>

\* RSA-PKCS1v1.5 / SHA-256 signature of `input` under `key`.
Sign(key, input) == <<"sig", key, input>>

\* util.rs jwk
jwk(key) == [kty |-> "RSA", n |-> b64(<<"n", key>>), e |-> b64(<<"e", key>>)]

\* A jws without the empty-payload case.
jwsEncodedEmpty(payload, header, private_key) ==
  LET payload64 == b64(to_string_pretty(payload))
      header64  == b64(to_string_pretty(header))
  IN [protected |-> header64,
      payload   |-> payload64,
      signature |-> b64(Sign(private_key, <<header64, ".", payload64>>))]

\* util.rs jws
jws(payload, header, private_key) ==
  LET empty_payload == (payload = EmptyPayload)
      payload64 == b64(to_string_pretty(payload))
      header64  == b64(to_string_pretty(header))
      input     == IF empty_payload THEN <<header64, ".">>
                                    ELSE <<header64, ".", payload64>>
  IN [protected |-> header64,
      payload   |-> IF empty_payload THEN EmptyString ELSE payload64,
      signature |-> b64(Sign(private_key, input))]

\* ---------------------------------------------------------------- results
Ok(v)  == [ok |-> TRUE, err |-> "", val |-> v]
Err(k) == [ok |-> FALSE, err |-> k, val |-> <<>>]

\* response.json::<T>(): the body deserializes when it is an object of the
\* expected type whose status, if any, is one StatusType knows; otherwise
\* reqwest reports the decoding failure as a reqwest::Error.
Deserializes(body, type) ==
  /\ body.kind = type
  /\ ("status" \in DOMAIN body /\ type \in {"authorization", "updated_order"})
       => body.status \in StatusType

\* The error raised when a response has no replay-nonce header.
MissingNonceError == "IncorrectResponse"

\* HeaderValue::to_str on the header `h` of a response that carries it.
HeaderResult(h, missing) ==
  IF h = NoHeader THEN Err(missing)
  ELSE IF h = BadHeader THEN Err("FromToStrError")
  ELSE Ok(h)

\* util.rs extract_payload_and_nonce: (replay_nonce, body)
extract_payload_and_nonce(response, type) ==
  LET replay_nonce == HeaderResult(response.replay_nonce, MissingNonceError)
  IN IF ~replay_nonce.ok THEN replay_nonce
     ELSE IF ~Deserializes(response.body, type) THEN Err("FromReqwestError")
     ELSE Ok(<<replay_nonce.val, response.body>>)

\* util.rs extract_payload_location_and_nonce: (replay_nonce, body, location)
extract_payload_location_and_nonce(response, type) ==
  LET replay_nonce == HeaderResult(response.replay_nonce, MissingNonceError)
      location     == HeaderResult(response.location, "IncorrectResponse")
  IN IF ~replay_nonce.ok THEN replay_nonce
     ELSE IF ~location.ok THEN location
     ELSE IF ~Deserializes(response.body, type) THEN Err("FromReqwestError")
     ELSE Ok(<<replay_nonce.val, response.body, location.val>>)

\* --------------------------------------------------------------- requests
\* The body of a request that carries none (GET, HEAD).
NoBody == EmptyString

\* One exchange: the request as sent and the response it got.
Exchange(step, method, url, body, accept, response) ==
  [step |-> step, method |-> method, url |-> url, body |-> body,
   accept |-> accept, resp |-> response]

\* What a function of acc.rs hands back: the exchanges it made and its Result.
Outcome(sent, result) == [sent |-> sent, result |-> result]

\* A signed POST: jws() may fail (openssl), send() may fail (transport),
\* then the response is handed to `extract`.
SignedPost(step, url, payload, header, p_key, accept, sign_ok, response, extracted) ==
  LET body == to_string_pretty(jws(payload, header, p_key))
      req  == Exchange(step, "POST", url, body, accept, response)
  IN IF ~sign_ok THEN Outcome(<<>>, Err("FromRsaError"))
     ELSE IF ~response.sent THEN Outcome(<<req>>, Err("FromReqwestError"))
     ELSE Outcome(<<req>>, extracted)

\* --------------------------------------------------------------- Directory
\* A fetch_dir that goes on with an empty nonce when the header is missing.
fetch_dirUnchecked(server_url, get_resp, head_resp) ==
  LET get  == Exchange("fetch_dir", "GET", server_url, NoBody, "", get_resp)
      dir  == get_resp.body
      head == Exchange("new_nonce", "HEAD", dir.new_nonce, NoBody, "", head_resp)
  IN IF ~get_resp.sent THEN Outcome(<<get>>, Err("FromReqwestError"))
     ELSE IF dir.kind # "directory" THEN Outcome(<<get>>, Err("FromReqwestError"))
     ELSE IF ~head_resp.sent THEN Outcome(<<get, head>>, Err("FromReqwestError"))
     ELSE Outcome(<<get, head>>,
                  Ok([new_nonce |-> dir.new_nonce, new_account |-> dir.new_account,
                      new_order |-> dir.new_order, revoke_cert |-> dir.revoke_cert,
                      key_change |-> dir.key_change,
                      nonce |-> head_resp.replay_nonce]))

\* acc.rs Directory::fetch_dir: GET the directory, HEAD new-nonce.
fetch_dir(server_url, get_resp, head_resp) ==
  LET get  == Exchange("fetch_dir", "GET", server_url, NoBody, "", get_resp)
      dir  == get_resp.body
      head == Exchange("new_nonce", "HEAD", dir.new_nonce, NoBody, "", head_resp)
      nonce == HeaderResult(head_resp.replay_nonce, "BadNonce")
  IN IF ~get_resp.sent THEN Outcome(<<get>>, Err("FromReqwestError"))
     ELSE IF dir.kind # "directory" THEN Outcome(<<get>>, Err("FromReqwestError"))
     ELSE IF ~head_resp.sent THEN Outcome(<<get, head>>, Err("FromReqwestError"))
     ELSE IF ~nonce.ok THEN Outcome(<<get, head>>, nonce)
     ELSE Outcome(<<get, head>>,
                  Ok([new_nonce |-> dir.new_nonce, new_account |-> dir.new_account,
                      new_order |-> dir.new_order, revoke_cert |-> dir.revoke_cert,
                      key_change |-> dir.key_change, nonce |-> nonce.val]))

\* The body of a response bound to a variable of type Nonce (a String).
AsText(body) == "<body:" \o body.kind \o ">"

\* The account creation header if it named the new-nonce URL.
AccountHeaderNonceUrl(self, p_key) ==
  [alg |-> "RS256", url |-> self.new_nonce, jwk |-> jwk(p_key),
   nonce |-> self.nonce]

\* The protected header of the account creation request.
AccountHeader(self, p_key) ==
  [alg |-> "RS256", url |-> self.new_account, jwk |-> jwk(p_key),
   nonce |-> self.nonce]

\* The binding of the tuple extract_payload_location_and_nonce returns to
\* create_account's pattern (location, nonce, account): by position.
BindAccount(t) ==
  [account |-> t[3], nonce |-> AsText(t[2]), account_location |-> t[1]]

\* acc.rs Directory::create_account
create_account(self, p_key, email, sign_ok, response) ==
  LET header  == AccountHeader(self, p_key)
      payload == [termsOfServiceAgreed |-> TRUE,
                  contact |-> <<"mailto:" \o email>>]
      ext     == extract_payload_location_and_nonce(response, "account")
  IN SignedPost("create_account", self.new_account, payload, header, p_key, "",
                sign_ok, response,
                IF ext.ok THEN Ok(BindAccount(ext.val)) ELSE ext)

\* ----------------------------------------------------------------- Account
\* The new-order header if it named the request URL as the key id.
OrderHeaderWrongKid(self, new_order_url) ==
  [alg |-> "RS256", url |-> new_order_url, kid |-> new_order_url,
   nonce |-> self.nonce]

\* The protected header of the new-order request.
OrderHeader(self, new_order_url) ==
  [alg |-> "RS256", url |-> new_order_url, kid |-> self.account_location,
   nonce |-> self.nonce]

\* A create_new_order that keeps the nonce it was called with.
create_new_orderStaleNonce(self, new_order_url, p_key, domain, optional_csr, sign_ok, response) ==
  LET header  == OrderHeader(self, new_order_url)
      payload == [identifiers |-> <<[type |-> "dns", value |-> domain]>>]
      ext     == extract_payload_and_nonce(response, "order")
  IN SignedPost("create_new_order", new_order_url, payload, header, p_key, "",
                sign_ok, response,
                IF ext.ok
                THEN Ok([status |-> ext.val[2].status,
                         authorizations |-> ext.val[2].authorizations,
                         finalize |-> ext.val[2].finalize,
                         nonce |-> self.nonce, optional_csr |-> optional_csr])
                ELSE ext)

\* acc.rs Account::create_new_order
create_new_order(self, new_order_url, p_key, domain, optional_csr, sign_ok, response) ==
  LET header  == OrderHeader(self, new_order_url)
      payload == [identifiers |-> <<[type |-> "dns", value |-> domain]>>]
      ext     == extract_payload_and_nonce(response, "order")
  IN SignedPost("create_new_order", new_order_url, payload, header, p_key, "",
                sign_ok, response,
                IF ext.ok
                THEN Ok([status |-> ext.val[2].status,
                         authorizations |-> ext.val[2].authorizations,
                         finalize |-> ext.val[2].finalize,
                         nonce |-> ext.val[1], optional_csr |-> optional_csr])
                ELSE ext)

\* ------------------------------------------------------------------- Order
\* Option<X509Req>
None      == [some |-> FALSE]
Some(csr) == [some |-> TRUE, csr |-> csr]

\* acc.rs Order::request_csr: subject CN, public key, signed with the private key.
request_csr(keypair, common_name) ==
  [subject |-> [CN |-> common_name], pubkey |-> keypair.public,
   signed_by |-> keypair.private]

\* The protected header of the authorization fetch.
AuthHeader(self, auth_url, account_url) ==
  [alg |-> "RS256", url |-> auth_url, kid |-> account_url, nonce |-> self.nonce]

\* A fetch_auth_challenges that takes the last authorization of the order.
fetch_auth_challengesLast(self, account_url, p_key, sign_ok, response) ==
  IF self.authorizations = <<>>
  THEN Outcome(<<>>, Err("NoHttpChallengePresent"))
  ELSE
    LET auth_url == self.authorizations[Len(self.authorizations)]
        header   == AuthHeader(self, auth_url, account_url)
        ext      == extract_payload_and_nonce(response, "authorization")
    IN SignedPost("fetch_auth_challenges", auth_url, EmptyPayload, header, p_key,
                  "", sign_ok, response,
                  IF ext.ok
                  THEN Ok([status |-> ext.val[2].status, http01 |-> ext.val[2].http01,
                           token |-> ext.val[2].token, url |-> ext.val[2].url,
                           authz |-> ext.val[2].authz, nonce |-> ext.val[1]])
                  ELSE ext)

\* acc.rs Order::fetch_auth_challenges
fetch_auth_challenges(self, account_url, p_key, sign_ok, response) ==
  IF self.authorizations = <<>>
  THEN Outcome(<<>>, Err("NoHttpChallengePresent"))
  ELSE
    LET auth_url == Head(self.authorizations)
        header   == AuthHeader(self, auth_url, account_url)
        ext      == extract_payload_and_nonce(response, "authorization")
    IN SignedPost("fetch_auth_challenges", auth_url, EmptyPayload, header, p_key,
                  "", sign_ok, response,
                  IF ext.ok
                  THEN Ok([status |-> ext.val[2].status, http01 |-> ext.val[2].http01,
                           token |-> ext.val[2].token, url |-> ext.val[2].url,
                           authz |-> ext.val[2].authz, nonce |-> ext.val[1]])
                  ELSE ext)

\* The finalize header if it took the nonce stored on the order.
FinalizeHeaderOrderNonce(self, account_url, new_nonce) ==
  [alg |-> "RS256", url |-> self.finalize, kid |-> account_url,
   nonce |-> self.nonce]

\* The protected header of the finalize request.
FinalizeHeader(self, account_url, new_nonce) ==
  [alg |-> "RS256", url |-> self.finalize, kid |-> account_url,
   nonce |-> new_nonce]

\* A finalize_order that builds a CSR whatever the order carries.
FinalizeCsrAlwaysBuilt(self, cert_keypair, domain) ==
  request_csr(cert_keypair, domain)

\* The CSR finalize_order sends: the order's own, else a freshly built one.
FinalizeCsr(self, cert_keypair, domain) ==
  IF self.optional_csr.some THEN self.optional_csr.csr
  ELSE request_csr(cert_keypair, domain)

\* A finalize_order that signs the envelope with the certificate key.
finalize_orderCertKeySigned(self, account_url, new_nonce, p_key, cert_keypair, domain, csr_ok, sign_ok, response) ==
  LET header  == FinalizeHeader(self, account_url, new_nonce)
      csr     == FinalizeCsr(self, cert_keypair, domain)
      payload == [csr |-> b64(<<"der", csr>>)]
      ext     == extract_payload_and_nonce(response, "updated_order")
  IN IF ~csr_ok THEN Outcome(<<>>, Err("FromRsaError"))
     ELSE SignedPost("finalize_order", self.finalize, payload, header,
                     cert_keypair.private,
                     "application/pem-certificate-chain", sign_ok, response,
                     IF ext.ok
                     THEN Ok([status |-> ext.val[2].status,
                              certificate |-> ext.val[2].certificate,
                              nonce |-> ext.val[1]])
                     ELSE ext)

\* acc.rs Order::finalize_order
finalize_order(self, account_url, new_nonce, p_key, cert_keypair, domain, csr_ok, sign_ok, response) ==
  LET header  == FinalizeHeader(self, account_url, new_nonce)
      csr     == FinalizeCsr(self, cert_keypair, domain)
      payload == [csr |-> b64(<<"der", csr>>)]
      ext     == extract_payload_and_nonce(response, "updated_order")
  IN IF ~csr_ok THEN Outcome(<<>>, Err("FromRsaError"))
     ELSE SignedPost("finalize_order", self.finalize, payload, header, p_key,
                     "application/pem-certificate-chain", sign_ok, response,
                     IF ext.ok
                     THEN Ok([status |-> ext.val[2].status,
                              certificate |-> ext.val[2].certificate,
                              nonce |-> ext.val[1]])
                     ELSE ext)

\* ------------------------------------------------- ChallengeAuthorisation
\* The protected header of the requests solve_http_challenge and
\* download_certificate sign: kid and the latest nonce.
KidHeader(url, account_url, nonce) ==
  [alg |-> "RS256", url |-> url, kid |-> account_url, nonce |-> nonce]

\* The error solve_http_challenge returns when polling exceeds its bound.
TimeoutError == "Timeout"

\* The error solve_http_challenge returns when the authorization is invalid.
InvalidError == "Unauthorized"

\* One step of solve_http_challenge (readiness signal or poll): an
\* empty-payload POST whose response carries the next nonce and the
\* authorization object.
challenge_post(step, url, account_url, nonce, p_key, sign_ok, response) ==
  LET header == KidHeader(url, account_url, nonce)
      ext    == extract_payload_and_nonce(response, "authorization")
  IN SignedPost(step, url, EmptyPayload, header, p_key, "", sign_ok, response,
                IF ext.ok
                THEN Ok([nonce |-> ext.val[1], status |-> ext.val[2].status])
                ELSE ext)

\* ------------------------------------------------------------ UpdatedOrder
\* UpdatedOrder::download_certificate: POST-as-GET to the certificate URL, the
\* response body is returned as it is.
download_certificate(self, account_url, p_key, sign_ok, response) ==
  LET header == KidHeader(self.certificate, account_url, self.nonce)
  IN SignedPost("download_certificate", self.certificate, EmptyPayload, header,
                p_key, "", sign_ok, response,
                Ok(IF response.body.kind = "pem" THEN response.body.text
                   ELSE AsText(response.body)))

\* ------------------------------------------------------------------- state
VARIABLES
  args,             \* bin.rs Args: which options the command line gave
  port80,           \* whether a process already listens on port 80
  pc,               \* the statement the driver is at
  keypair_for_cert, \* bin.rs: the key pair the certificate is issued for
  optional_csr,     \* bin.rs: the CSR loaded from --csr-path, if any
  keypair,          \* lib.rs: the account key
  dir_infos,        \* lib.rs: the Directory
  new_acc,          \* lib.rs: the Account
  order,            \* lib.rs: the Order
  challenge,        \* lib.rs: the ChallengeAuthorisation
  solve,            \* solve_http_challenge: its latest nonce and poll count
  responder,        \* the standalone HTTP-01 responder: off, running, stopped
  new_nonce,        \* lib.rs: the nonce solve_http_challenge returned
  updated_order,    \* lib.rs: the UpdatedOrder
  result,           \* what generate_certificate_for_domain returned
  log,              \* every exchange with the CA, in order
  issued,           \* number of nonces the CA has issued
  files             \* the files written to the working directory

vars ==
  <<args, port80, pc, keypair_for_cert, optional_csr, keypair, dir_infos,
    new_acc, order, challenge, solve, responder, new_nonce, updated_order,
    result, log, issued, files>>

\* What main holds before generate_certificate_for_domain is entered.
mainVars == <<keypair_for_cert, optional_csr>>
\* What generate_certificate_for_domain holds.
sessionVars ==
  <<keypair, dir_infos, new_acc, order, challenge, solve, responder,
    new_nonce, updated_order>>
\* The CA side.
caVars == <<log, issued>>

NoKeypair == [private |-> "", public |-> ""]
NoDirectory ==
  [new_nonce |-> "", new_account |-> "", new_order |-> "", revoke_cert |-> "",
   key_change |-> "", nonce |-> ""]
NoAccount == [account |-> "", nonce |-> "", account_location |-> ""]
NoOrder ==
  [status |-> "", authorizations |-> <<>>, finalize |-> "", nonce |-> "",
   optional_csr |-> None]
NoChallenge ==
  [status |-> "", http01 |-> FALSE, token |-> "", url |-> "", authz |-> "",
   nonce |-> ""]
NoUpdatedOrder == [status |-> "", certificate |-> NoUrl, nonce |-> ""]
NotReturned == [ok |-> FALSE, err |-> "<not returned>", val |-> <<>>]

Init ==
  /\ args \in [csr_path : BOOLEAN, private_key : BOOLEAN, public_key : BOOLEAN,
               server : BOOLEAN, standalone : BOOLEAN]
  /\ port80 \in BOOLEAN
  /\ pc = "main"
  /\ keypair_for_cert = NoKeypair
  /\ optional_csr = None
  /\ keypair = ""
  /\ dir_infos = NoDirectory
  /\ new_acc = NoAccount
  /\ order = NoOrder
  /\ challenge = NoChallenge
  /\ solve = [nonce |-> "", polls |-> 0]
  /\ responder = "off"
  /\ new_nonce = ""
  /\ updated_order = NoUpdatedOrder
  /\ result = NotReturned
  /\ log = <<>>
  /\ issued = 0
  /\ files = {}

\* ---------------------------------------------------------------- bin.rs
\* main: a CSR needs both key paths.
ParseArgs ==
  /\ pc = "main"
  /\ pc' = IF args.csr_path /\ (~args.private_key \/ ~args.public_key)
           THEN "exit_error" ELSE "load_keypair"
  /\ UNCHANGED <<args, port80, mainVars, sessionVars, result, caVars, files>>

\* util.rs load_keys_from_file / generate_rsa_keypair
LoadedKeypair    == [private |-> "file-private-key", public |-> "file-public-key"]
GeneratedKeypair == [private |-> "generated-cert-key", public |-> "generated-cert-key"]

\* main: load the key pair from the two files, or generate one.
LoadKeypair ==
  /\ pc = "load_keypair"
  /\ \E io_ok \in BOOLEAN :
       IF args.private_key # args.public_key
       THEN /\ pc' = "exit_error"
            /\ UNCHANGED keypair_for_cert
       ELSE IF ~io_ok
       THEN /\ pc' = "panic"
            /\ UNCHANGED keypair_for_cert
       ELSE /\ pc' = "load_csr"
            /\ keypair_for_cert' =
                 IF args.private_key THEN LoadedKeypair ELSE GeneratedKeypair
  /\ UNCHANGED <<args, port80, optional_csr, sessionVars, result, caVars, files>>

\* The CSR a --csr-path file holds.
UserCsr ==
  [subject |-> [CN |-> "csr.example.org"], pubkey |-> "file-public-key",
   signed_by |-> "file-private-key"]

\* main: load the CSR if a path was given.
LoadCsr ==
  /\ pc = "load_csr"
  /\ \E io_ok \in BOOLEAN :
       IF ~args.csr_path
       THEN /\ pc' = "check_standalone"
            /\ optional_csr' = None
       ELSE IF ~io_ok
       THEN /\ pc' = "panic"
            /\ UNCHANGED optional_csr
       ELSE /\ pc' = "check_standalone"
            /\ optional_csr' = Some(UserCsr)
  /\ UNCHANGED <<args, port80, keypair_for_cert, sessionVars, result, caVars, files>>

\* util.rs check_for_existing_server
check_for_existing_server == port80

\* A main that never probes port 80.
CheckStandaloneSkipped ==
  /\ pc = "check_standalone"
  /\ pc' = "generate_rsa_key"
  /\ UNCHANGED <<args, port80, mainVars, sessionVars, result, caVars, files>>

\* main: --standalone with port 80 taken is an error.
CheckStandalone ==
  /\ pc = "check_standalone"
  /\ pc' = IF args.standalone /\ check_for_existing_server
           THEN "exit_error" ELSE "generate_rsa_key"
  /\ UNCHANGED <<args, port80, mainVars, sessionVars, result, caVars, files>>

\* ---------------------------------------------------------------- lib.rs
\* A driver that goes on to `next` whatever the step returned.
TryIgnoringError(res, next) == next

\* The `?` operator: go on to `next` on Ok, return the error otherwise.
Try(res, next) == IF res.ok THEN next ELSE "returned"

\* The value generate_certificate_for_domain has returned after a step.
Returned(res) == IF res.ok THEN result ELSE Err(res.err)

RECURSIVE IssuedBy(_)
IssuedBy(sent) ==
  IF sent = <<>> THEN 0 ELSE Issued(Head(sent).resp) + IssuedBy(Tail(sent))

\* The CA has answered the exchanges of `out`.
Answered(out) ==
  /\ log' = log \o out.sent
  /\ issued' = issued + IssuedBy(out.sent)

\* The responses to a signed request, with the given bodies.
SignedResponses(bodies) == Responses(issued + 1, bodies, {NoHeader})

\* lib.rs: let keypair = generate_rsa_key()?
GenerateRsaKey ==
  /\ pc = "generate_rsa_key"
  /\ \E rsa_ok \in BOOLEAN :
       LET res == IF rsa_ok THEN Ok("account-key") ELSE Err("FromRsaError")
       IN /\ pc' = Try(res, "fetch_dir")
          /\ result' = Returned(res)
          /\ keypair' = IF res.ok THEN res.val ELSE keypair
  /\ UNCHANGED <<args, port80, mainVars, dir_infos, new_acc, order, challenge,
                 solve, responder, new_nonce, updated_order, caVars, files>>

\* bin.rs: the server URL handed to generate_certificate_for_domain.
ServerUrl == IF args.server THEN CustomServer ELSE LETS_ENCRYPT_SERVER

\* lib.rs: Directory::fetch_dir(&client, server)?
FetchDir ==
  /\ pc = "fetch_dir"
  /\ \E get_resp \in {NoResponse} \cup
                     [sent : {TRUE}, replay_nonce : {NoHeader},
                      location : {NoHeader}, body : {DirBody, ProblemBody}],
        head_resp \in Responses(issued + 1, {[kind |-> "none"]}, {NoHeader}) :
       LET out == fetch_dir(ServerUrl, get_resp, head_resp)
       IN /\ Answered(out)
          /\ pc' = Try(out.result, "create_account")
          /\ result' = Returned(out.result)
          /\ dir_infos' = IF out.result.ok THEN out.result.val ELSE dir_infos
  /\ UNCHANGED <<args, port80, mainVars, keypair, new_acc, order, challenge,
                 solve, responder, new_nonce, updated_order, files>>

\* lib.rs: dir_infos.create_account(&client, &keypair, email)?
CreateAccount ==
  /\ pc = "create_account"
  /\ \E sign_ok \in BOOLEAN,
        resp \in Responses(issued + 1, {AccountBody, ProblemBody},
                           {NoHeader, BadHeader, AcctUrl}) :
       LET out == create_account(dir_infos, keypair, Email, sign_ok, resp)
       IN /\ Answered(out)
          /\ pc' = Try(out.result, "create_new_order")
          /\ result' = Returned(out.result)
          /\ new_acc' = IF out.result.ok THEN out.result.val ELSE new_acc
  /\ UNCHANGED <<args, port80, mainVars, keypair, dir_infos, order, challenge,
                 solve, responder, new_nonce, updated_order, files>>

\* lib.rs: new_acc.create_new_order(&client, &dir_infos.new_order, ...)?
CreateNewOrder ==
  /\ pc = "create_new_order"
  /\ \E sign_ok \in BOOLEAN,
        resp \in SignedResponses({OrderBody(n) : n \in 0..MaxAuthz}
                                  \cup {ProblemBody}) :
       LET out == create_new_order(new_acc, dir_infos.new_order, keypair, Domain,
                                   optional_csr, sign_ok, resp)
       IN /\ Answered(out)
          /\ pc' = Try(out.result, "fetch_auth_challenges")
          /\ result' = Returned(out.result)
          /\ order' = IF out.result.ok THEN out.result.val ELSE order
  /\ UNCHANGED <<args, port80, mainVars, keypair, dir_infos, new_acc, challenge,
                 solve, responder, new_nonce, updated_order, files>>

\* lib.rs: order.fetch_auth_challenges(&client, &new_acc.account_location, &keypair)?
FetchAuthChallenges ==
  /\ pc = "fetch_auth_challenges"
  /\ \E sign_ok \in BOOLEAN,
        resp \in SignedResponses({AuthzBody("pending", h) : h \in BOOLEAN}
                                  \cup {ProblemBody}) :
       LET out == fetch_auth_challenges(order, new_acc.account_location, keypair,
                                        sign_ok, resp)
       IN /\ Answered(out)
          /\ pc' = Try(out.result, "solve_http_challenge")
          /\ result' = Returned(out.result)
          /\ challenge' = IF out.result.ok THEN out.result.val ELSE challenge
  /\ UNCHANGED <<args, port80, mainVars, keypair, dir_infos, new_acc, order,
                 solve, responder, new_nonce, updated_order, files>>

\* A solve_http_challenge that leaves the responder as it is.
StopNever(r) == r

\* solve_http_challenge leaves: the responder, if it runs, is stopped.
Stop(r) == IF r = "running" THEN "stopped" ELSE r

\* solve_http_challenge, entry: pick the HTTP-01 challenge and, in standalone
\* mode, bind the responder on port 80.
SolveStart ==
  /\ pc = "solve_http_challenge"
  /\ \E bind_ok \in BOOLEAN :
       LET res == IF ~challenge.http01 THEN Err("NoHttpChallengePresent")
                  ELSE IF args.standalone /\ ~bind_ok THEN Err("NoWebServer")
                  ELSE Ok(challenge.nonce)
       IN /\ pc' = Try(res, "signal_ready")
          /\ result' = Returned(res)
          /\ responder' = IF res.ok /\ args.standalone THEN "running" ELSE responder
          /\ solve' = IF res.ok THEN [nonce |-> res.val, polls |-> 0] ELSE solve
  /\ UNCHANGED <<args, port80, mainVars, keypair, dir_infos, new_acc, order,
                 challenge, new_nonce, updated_order, caVars, files>>

\* solve_http_challenge: signal readiness at the challenge's own url.
SignalReady ==
  /\ pc = "signal_ready"
  /\ \E sign_ok \in BOOLEAN,
        resp \in SignedResponses({AuthzBody("pending", TRUE), ProblemBody}) :
       LET out == challenge_post("signal_ready", challenge.url,
                                 new_acc.account_location, solve.nonce, keypair,
                                 sign_ok, resp)
       IN /\ Answered(out)
          /\ pc' = Try(out.result, "poll_authorization")
          /\ result' = Returned(out.result)
          /\ responder' = IF out.result.ok THEN responder ELSE Stop(responder)
          /\ solve' = IF out.result.ok
                      THEN [solve EXCEPT !.nonce = out.result.val.nonce]
                      ELSE solve
  /\ UNCHANGED <<args, port80, mainVars, keypair, dir_infos, new_acc, order,
                 challenge, new_nonce, updated_order, files>>

\* solve_http_challenge: poll the authorization until it leaves pending, at
\* most MaxPolls times; return the latest nonce once it is valid.
PollAuthorization ==
  /\ pc = "poll_authorization"
  /\ IF solve.polls >= MaxPolls
     THEN /\ pc' = "returned"
          /\ result' = Err(TimeoutError)
          /\ responder' = Stop(responder)
          /\ UNCHANGED <<solve, new_nonce, caVars>>
     ELSE \E sign_ok \in BOOLEAN,
             resp \in SignedResponses({AuthzBody(st, TRUE) : st \in StatusType}
                                       \cup {ProblemBody}) :
            LET out == challenge_post("poll_authorization", challenge.authz,
                                      new_acc.account_location, solve.nonce,
                                      keypair, sign_ok, resp)
                st  == IF out.result.ok THEN out.result.val.status ELSE "error"
                res == IF st = "invalid" THEN Err(InvalidError) ELSE out.result
            IN /\ Answered(out)
               /\ pc' = IF st = "pending" THEN "poll_authorization"
                        ELSE Try(res, "finalize_order")
               /\ result' = Returned(res)
               /\ responder' = IF st = "pending" THEN responder ELSE Stop(responder)
               /\ solve' = IF out.result.ok
                           THEN [nonce |-> out.result.val.nonce,
                                 polls |-> solve.polls + 1]
                           ELSE solve
               /\ new_nonce' = IF st = "valid" THEN out.result.val.nonce
                               ELSE new_nonce
  /\ UNCHANGED <<args, port80, mainVars, keypair, dir_infos, new_acc, order,
                 challenge, updated_order, files>>

\* lib.rs: order.finalize_order(&client, &new_acc.account_location, new_nonce, ...)?
FinalizeOrder ==
  /\ pc = "finalize_order"
  /\ \E csr_ok \in BOOLEAN, sign_ok \in BOOLEAN,
        resp \in SignedResponses({UpdatedOrderBody(st) : st \in CAStatuses}
                                  \cup {ProblemBody}) :
       LET out == finalize_order(order, new_acc.account_location, new_nonce,
                                 keypair, keypair_for_cert, Domain, csr_ok,
                                 sign_ok, resp)
       IN /\ Answered(out)
          /\ pc' = Try(out.result, "download_certificate")
          /\ result' = Returned(out.result)
          /\ updated_order' = IF out.result.ok THEN out.result.val
                              ELSE updated_order
  /\ UNCHANGED <<args, port80, mainVars, keypair, dir_infos, new_acc, order,
                 challenge, solve, responder, new_nonce, files>>

\* lib.rs: updated_order.download_certificate(...)?, then Ok(cert_chain)
DownloadCertificate ==
  /\ pc = "download_certificate"
  /\ \E sign_ok \in BOOLEAN,
        resp \in SignedResponses({PemBody, ProblemBody}) :
       LET out == download_certificate(updated_order, new_acc.account_location,
                                       keypair, sign_ok, resp)
       IN /\ Answered(out)
          /\ pc' = "returned"
          /\ result' = IF out.result.ok THEN Ok(out.result.val)
                       ELSE Err(out.result.err)
  /\ UNCHANGED <<args, port80, mainVars, sessionVars, files>>

\* ------------------------------------------------------ bin.rs, continued
\* main saving whatever generate_certificate_for_domain returned.
ExpectAnyResult ==
  /\ pc = "returned"
  /\ pc' = "save_certificates"
  /\ UNCHANGED <<args, port80, mainVars, sessionVars, result, caVars, files>>

\* main: .expect("Error during creation")
ExpectCertificate ==
  /\ pc = "returned"
  /\ pc' = IF result.ok THEN "save_certificates" ELSE "panic"
  /\ UNCHANGED <<args, port80, mainVars, sessionVars, result, caVars, files>>

\* The files the first `n` writes of `names` leave behind.
Written(names, n) == {names[i] : i \in 1..n}

\* util.rs save_certificates: two writes, each may fail.
save_certificates == <<"my_cert.crt", "cert_chain.crt">>

\* util.rs save_keypair: two writes, each may fail.
save_keypair == <<"priv.pem", "pub.pem">>

\* A main that saves the key pair whatever the command line gave.
SaveCertificatesAndKeys ==
  /\ pc = "save_certificates"
  /\ \E n \in 0..Len(save_certificates) :
       /\ files' = files \cup Written(save_certificates, n)
       /\ pc' = IF n < Len(save_certificates) THEN "panic" ELSE "save_keypair"
  /\ UNCHANGED <<args, port80, mainVars, sessionVars, result, caVars>>

\* main: save_certificates(cert_chain).expect(...)
SaveCertificates ==
  /\ pc = "save_certificates"
  /\ \E n \in 0..Len(save_certificates) :
       /\ files' = files \cup Written(save_certificates, n)
       /\ pc' = IF n < Len(save_certificates) THEN "panic"
                ELSE IF ~args.public_key THEN "save_keypair" ELSE "done"
  /\ UNCHANGED <<args, port80, mainVars, sessionVars, result, caVars>>

\* main: save_keypair(&keypair_for_cert).expect(...)
SaveKeypair ==
  /\ pc = "save_keypair"
  /\ \E n \in 0..Len(save_keypair) :
       /\ files' = files \cup Written(save_keypair, n)
       /\ pc' = IF n < Len(save_keypair) THEN "panic" ELSE "done"
  /\ UNCHANGED <<args, port80, mainVars, sessionVars, result, caVars>>

Next ==
  \/ ParseArgs
  \/ LoadKeypair
  \/ LoadCsr
  \/ CheckStandalone
  \/ GenerateRsaKey
  \/ FetchDir
  \/ CreateAccount
  \/ CreateNewOrder
  \/ FetchAuthChallenges
  \/ SolveStart
  \/ SignalReady
  \/ PollAuthorization
  \/ FinalizeOrder
  \/ DownloadCertificate
  \/ ExpectCertificate
  \/ SaveCertificates
  \/ SaveKeypair

Spec == Init /\ [][Next]_vars

\* ------------------------------------------- finalize_order on its own
\* finalize_order is public: a caller may hand it any Order, whatever the
\* state of the order's challenge. The state below is the one a caller is in
\* when it calls finalize_order with the challenge in status `st`.
InitFinalize ==
  /\ args = [csr_path |-> FALSE, private_key |-> FALSE, public_key |-> FALSE,
             server |-> FALSE, standalone |-> FALSE]
  /\ port80 = FALSE
  /\ pc = "finalize_order"
  /\ keypair_for_cert = GeneratedKeypair
  /\ optional_csr = None
  /\ keypair = "account-key"
  /\ dir_infos = NoDirectory
  /\ new_acc = BindAccount(<<NonceStr(2), AccountBody, AcctUrl>>)
  /\ order \in {[status |-> "pending", authorizations |-> SubSeq(AuthzUrls, 1, n),
                  finalize |-> FinalizeUrl, nonce |-> NonceStr(3),
                  optional_csr |-> c] :
                 n \in 1..MaxAuthz, c \in {None, Some(UserCsr)}}
  /\ challenge \in {[status |-> st, http01 |-> TRUE, token |-> "abc123",
                      url |-> ChallengeUrl, authz |-> AuthzUrls[1],
                      nonce |-> NonceStr(4)] : st \in StatusType}
  /\ solve = [nonce |-> NonceStr(4), polls |-> 0]
  /\ responder = "off"
  /\ new_nonce = NonceStr(4)
  /\ updated_order = NoUpdatedOrder
  /\ result = NotReturned
  /\ log = <<>>
  /\ issued = 4
  /\ files = {}

NextFinalize == FinalizeOrder

SpecFinalize == InitFinalize /\ [][NextFinalize]_vars

TypeOK ==
  /\ pc \in {"main", "load_keypair", "load_csr", "check_standalone",
             "generate_rsa_key", "fetch_dir", "create_account",
             "create_new_order", "fetch_auth_challenges", "solve_http_challenge",
             "signal_ready", "poll_authorization", "finalize_order",
             "download_certificate", "returned", "save_certificates",
             "save_keypair", "done", "panic", "exit_error"}
  /\ responder \in {"off", "running", "stopped"}
  /\ issued \in 0..(Len(log))
  /\ files \subseteq {"my_cert.crt", "cert_chain.crt", "priv.pem", "pub.pem"}

\* ------------------------------------------------------ reading the log
\* The JWS envelope and the protected header of a signed request.
JwsOf(e)    == e.body[2]
HeaderOf(e) == JwsOf(e).protected[2][2]
IsSigned(e) == e.method = "POST"

\* The steps of the flow in the order the driver runs them.
StepOrder ==
  <<"fetch_dir", "new_nonce", "create_account", "create_new_order",
    "fetch_auth_challenges", "signal_ready", "poll_authorization",
    "finalize_order", "download_certificate">>
Rank(step) == CHOOSE r \in 1..Len(StepOrder) : StepOrder[r] = step

\* The type of object each signed step expects in the response.
ExpectedType(step) ==
  CASE step = "create_account" -> "account"
    [] step = "create_new_order" -> "order"
    [] step = "finalize_order" -> "updated_order"
    [] OTHER -> "authorization"

\* The response of exchange e let its step go on.
Succeeded(e) ==
  /\ e.resp.sent
  /\ CASE e.step = "fetch_dir" -> e.resp.body.kind = "directory"
       [] e.step = "new_nonce" -> e.resp.replay_nonce \notin {NoHeader, BadHeader}
       [] e.step = "create_account" ->
            /\ e.resp.replay_nonce \notin {NoHeader, BadHeader}
            /\ e.resp.location \notin {NoHeader, BadHeader}
            /\ e.resp.body.kind = "account"
       [] e.step = "download_certificate" -> TRUE
       [] OTHER ->
            /\ e.resp.replay_nonce \notin {NoHeader, BadHeader}
            /\ e.resp.body.kind = ExpectedType(e.step)
            /\ e.resp.body.status \in StatusType
            /\ e.step = "poll_authorization" => e.resp.body.status # "invalid"

\* generate_certificate_for_domain has returned an error.
Failed == ~result.ok /\ result # NotReturned

\* The four signed exchanges whose code is in acc.rs.
AccSteps ==
  {"create_account", "create_new_order", "fetch_auth_challenges", "finalize_order"}

\* ------------------------------------------------------------------ claims

\* C1: for every two consecutive CA exchanges from the bootstrap HEAD on, the
\* nonce in the protected header of the second request is the replay-nonce
\* the first response carried.
C1_NoncePropagation ==
  \A i \in 1..(Len(log) - 1) :
    log[i].step # "fetch_dir" =>
      HeaderOf(log[i + 1]).nonce = log[i].resp.replay_nonce

\* C2: a response without replay-nonce header to one of the four signed
\* exchanges makes the call return Error::BadNonce, and the call sends
\* nothing after it.
C2_MissingNonceIsBadNonce ==
  \A i \in 1..Len(log) :
    (/\ log[i].step \in AccSteps
     /\ log[i].resp.sent
     /\ log[i].resp.replay_nonce = NoHeader)
    => (i = Len(log) /\ result = Err("BadNonce"))

\* C3: after a successful create_account the Account's account_location is the
\* response's Location header and its nonce is the response's replay-nonce.
C3_AccountFromHeaders ==
  \A i \in 1..Len(log) :
    (log[i].step = "create_account" /\ new_acc # NoAccount)
    => (/\ new_acc.account_location = log[i].resp.location
        /\ new_acc.nonce = log[i].resp.replay_nonce)

\* The CA rejected exchange e with a badNonce problem document.
IsBadNonce(e) ==
  /\ IsSigned(e)
  /\ e.resp.sent
  /\ e.resp.replay_nonce \notin {NoHeader, BadHeader}
  /\ e.resp.body = ProblemBody

\* C4: when a signed exchange fails with a bad-nonce error the client
\* re-fetches a nonce (HEAD new-nonce) and retries exactly that request; it
\* never gives up on the first bad nonce, and nothing else is retried.
C4_BadNonceRetried ==
  /\ \A i \in 1..Len(log) :
       (/\ IsBadNonce(log[i])
        /\ \A j \in 1..(i - 1) : ~IsBadNonce(log[j])
        /\ pc \in {"returned", "panic"})
       => (/\ i + 2 <= Len(log)
           /\ log[i + 1].method = "HEAD"
           /\ log[i + 1].url = dir_infos.new_nonce
           /\ log[i + 2].url = log[i].url
           /\ JwsOf(log[i + 2]).payload = JwsOf(log[i]).payload)
  /\ \A i \in 1..(Len(log) - 1) :
       (IsSigned(log[i]) /\ ~IsBadNonce(log[i]))
       => log[i + 1].url # log[i].url \/ log[i].step = "poll_authorization"

\* C5: the exchanges occur in the order directory GET, new-nonce HEAD, account,
\* order, authorization fetch, challenge (readiness, polls), finalize,
\* download; an exchange is followed by another only if its step succeeded,
\* and once the flow has returned an error no further exchange is made.
C5_StepOrdering ==
  /\ [](/\ log # <<>> => log[1].step = "fetch_dir"
        /\ \A i \in 1..(Len(log) - 1) :
             /\ Succeeded(log[i])
             /\ IF log[i].step = "poll_authorization"
                THEN IF log[i].resp.body.status = "pending"
                     THEN log[i + 1].step = "poll_authorization"
                     ELSE log[i + 1].step = "finalize_order"
                ELSE Rank(log[i + 1].step) = Rank(log[i].step) + 1)
  /\ [][Failed => (log' = log /\ pc' \in {"returned", "panic"})]_vars

\* C5 witness: a run that went through every step up to the download.
C5_Witness ==
  /\ Len(log) >= Len(StepOrder)
  /\ log[Len(log)].step = "download_certificate"
  /\ result.ok

\* The finalize exchange whose response the code accepted with status st.
FinalizedWith(e, st) ==
  /\ e.step = "finalize_order"
  /\ Succeeded(e)
  /\ e.resp.body.status = st

\* C6: the download is started only after the client has seen the finalized
\* order in status valid with a certificate URL.
C6_DownloadOnlyAfterValid ==
  (\/ pc = "download_certificate"
   \/ \E i \in 1..Len(log) : log[i].step = "download_certificate")
  => \E j \in 1..Len(log) :
       /\ FinalizedWith(log[j], "valid")
       /\ log[j].resp.body.certificate = CertUrl

\* The polls of the authorization made so far.
AuthorizationPolls == SelectSeq(log, LAMBDA e : e.step = "poll_authorization")

\* The response of exchange e is an accepted object in status invalid.
SawInvalid(e) ==
  /\ e.step \in {"poll_authorization", "finalize_order"}
  /\ e.resp.sent
  /\ e.resp.replay_nonce \notin {NoHeader, BadHeader}
  /\ e.resp.body.kind = ExpectedType(e.step)
  /\ e.resp.body.status = "invalid"

\* C7: answers pending, pending, valid make exactly 3 polls and a valid
\* outcome; the first invalid status ends the run with an error and no
\* request follows it.
C7_PollingBehaviour ==
  /\ LET polls == AuthorizationPolls
     IN (/\ Len(polls) >= 3
         /\ \A k \in 1..3 : Succeeded(polls[k])
         /\ polls[1].resp.body.status = "pending"
         /\ polls[2].resp.body.status = "pending"
         /\ polls[3].resp.body.status = "valid")
        => (Len(polls) = 3 /\ new_nonce = polls[3].resp.replay_nonce)
  /\ \A i \in 1..Len(log) :
       SawInvalid(log[i])
       => (i = Len(log) /\ pc \in {"returned", "panic"} /\ Failed)

\* C8: no polling loop runs for ever: the authorization is polled at most
\* MaxPolls times, and an order the CA leaves pending is never downloaded,
\* the run ends with the timeout error instead.
C8_PollingTimesOut ==
  /\ Len(AuthorizationPolls) <= MaxPolls
  /\ \A i \in 1..Len(log) :
       FinalizedWith(log[i], "pending")
       => (/\ pc # "download_certificate"
           /\ \A j \in 1..Len(log) : log[j].step # "download_certificate"
           /\ pc \in {"returned", "panic", "done"} => result = Err(TimeoutError))

\* C9: while the issuance has not succeeded (it is under way, was never
\* started, or has failed) no certificate file and no key file is written.
C9_NoPartialOutput == ~result.ok => files = {}

\* C9 witness: the driver aborted after a failed CA exchange, nothing written.
C9_Witness ==
  /\ pc = "panic"
  /\ Failed
  /\ log # <<>>
  /\ files = {}

\* C10: the account creation request carries jwk and no kid; every other
\* signed request carries kid, equal to the Account's account_location, and
\* no jwk.
C10_AuthenticationMode ==
  \A i \in 1..Len(log) :
    IsSigned(log[i]) =>
      LET h == HeaderOf(log[i])
      IN IF log[i].step = "create_account"
         THEN "jwk" \in DOMAIN h /\ "kid" \notin DOMAIN h
         ELSE /\ "kid" \in DOMAIN h
              /\ "jwk" \notin DOMAIN h
              /\ h.kid = new_acc.account_location

\* C10 witness: requests signed after account creation, up to the download.
C10_Witness ==
  /\ \E i \in 1..Len(log) : log[i].step = "create_new_order"
  /\ \E i \in 1..Len(log) : log[i].step = "finalize_order"
  /\ \E i \in 1..Len(log) : log[i].step = "download_certificate"

\* C11: the standalone responder runs only inside challenge solving: it is
\* started before readiness is signalled, runs while the authorization is
\* polled, and is stopped on every way out (valid, invalid, timeout, error)
\* before the result reaches the caller.
C11_ResponderCleanup ==
  /\ responder = "running" => pc \in {"signal_ready", "poll_authorization"}
  /\ (args.standalone /\ pc \in {"signal_ready", "poll_authorization"})
       => responder = "running"
  /\ (args.standalone /\ \E i \in 1..Len(log) : log[i].step = "signal_ready")
       => responder # "off"
  /\ ~args.standalone => responder = "off"

\* C11 witness: the polls ran out with the responder up, and it was stopped.
C11_Witness ==
  /\ responder = "stopped"
  /\ result = Err(TimeoutError)
  /\ Len(AuthorizationPolls) = MaxPolls

\* C12: the bootstrap is one GET of the directory URL, then one HEAD of the
\* new-nonce endpoint, and nothing else is ever sent unsigned; a HEAD response
\* without replay-nonce ends the session with BadNonce and no signed request.
C12_DirectoryBootstrap ==
  /\ \A i \in 1..Len(log) :
       /\ log[i].method = "GET" <=> i = 1
       /\ log[i].method = "HEAD" <=> i = 2
       /\ i = 1 => (log[i].step = "fetch_dir" /\ log[i].url = ServerUrl)
       /\ i = 2 => (/\ log[i].step = "new_nonce"
                    /\ log[i].url = log[1].resp.body.new_nonce)
  /\ (/\ Len(log) >= 2
      /\ log[2].resp.sent
      /\ log[2].resp.replay_nonce = NoHeader)
     => (/\ Len(log) = 2
         /\ result = Err("BadNonce")
         /\ pc \in {"returned", "panic"})

\* C12 witness: the HEAD was answered without replay-nonce.
C12_Witness ==
  /\ Len(log) = 2
  /\ log[2].resp.sent
  /\ log[2].resp.replay_nonce = NoHeader
  /\ pc = "panic"

\* The error kind that corresponds to a CA problem type.
ProblemKind(type) ==
  CASE type = "urn:ietf:params:acme:error:badNonce" -> "BadNonce"
    [] type = "urn:ietf:params:acme:error:badCSR" -> "BadCSR"
    [] type = "urn:ietf:params:acme:error:orderNotReady" -> "OrderNotReady"
    [] OTHER -> "InternalServerError"

\* C13: a problem document of type urn:ietf:params:acme:error:<X> makes the
\* failing step return the error kind of <X>.
C13_ProblemMapped ==
  \A i \in 1..Len(log) :
    (/\ log[i].step \in AccSteps
     /\ log[i].resp.sent
     /\ log[i].resp.replay_nonce \notin {NoHeader, BadHeader}
     /\ log[i].resp.body.kind = "problem")
    => (i = Len(log) /\ result = Err(ProblemKind(log[i].resp.body.type)))

\* The exchanges after account creation whose code is in acc.rs.
LaterAccSteps == AccSteps \ {"create_account"}

\* C14, as stated: after a successful exchange that follows account creation
\* the Account's nonce is the replay-nonce of that response.
C14_AccountNonceRefreshed ==
  (/\ log # <<>>
   /\ log[Len(log)].step \in LaterAccSteps
   /\ Succeeded(log[Len(log)]))
  => new_acc.nonce = log[Len(log)].resp.replay_nonce

\* C14, amended: the replay-nonce of a successful exchange after account
\* creation is stored on the object that exchange returns (Order,
\* ChallengeAuthorisation, UpdatedOrder), and the Account is never changed
\* once create_account has returned it.
C14_NonceOnReturnedObject ==
  /\ [](\A i \in 1..Len(log) :
          Succeeded(log[i]) =>
            /\ log[i].step = "create_new_order"
                 => order.nonce = log[i].resp.replay_nonce
            /\ log[i].step = "fetch_auth_challenges"
                 => challenge.nonce = log[i].resp.replay_nonce
            /\ log[i].step = "finalize_order"
                 => updated_order.nonce = log[i].resp.replay_nonce)
  /\ [][new_acc # NoAccount => new_acc' = new_acc]_vars

\* C14 witness: order, authorization and finalize all answered with success.
C14_Witness ==
  /\ \E i \in 1..Len(log) : log[i].step = "finalize_order" /\ Succeeded(log[i])
  /\ updated_order # NoUpdatedOrder
  /\ new_acc # NoAccount

\* C15: finalize_order called on an order whose challenge is not completed
\* sends no finalize request (it panics instead).
C15_FinalizeNeedsCompletedChallenge ==
  challenge.status # "valid"
  => \A i \in 1..Len(log) : log[i].step # "finalize_order"

\* The steps whose request has the empty JSON string as payload.
EmptyPayloadSteps ==
  {"fetch_auth_challenges", "signal_ready", "poll_authorization",
   "download_certificate"}

\* C16: in every envelope `protected` is b64url of the header JSON; with the
\* empty string as payload the `payload` field is the empty text (not the
\* encoding of "") and the signature covers protected + "."; otherwise
\* `payload` is b64url of the payload JSON and the signature covers
\* protected + "." + payload. The signing key is the account key.
C16_JwsEnvelope ==
  \A i \in 1..Len(log) :
    IsSigned(log[i]) =>
      LET j == JwsOf(log[i])
      IN /\ Len(j.protected) = 2
         /\ j.protected[1] = "b64"
         /\ j.protected[2][1] = "json"
         /\ j.protected[2][2].alg = "RS256"
         /\ j.protected[2][2].url = log[i].url
         /\ IF log[i].step \in EmptyPayloadSteps
            THEN /\ j.payload = EmptyString
                 /\ j.payload # b64(to_string_pretty(EmptyPayload))
                 /\ j.signature = b64(Sign(keypair, <<j.protected, ".">>))
            ELSE /\ Len(j.payload) = 2
                 /\ j.payload[1] = "b64"
                 /\ j.payload[2][1] = "json"
                 /\ j.payload[2][2] # EmptyPayload
                 /\ j.signature =
                      b64(Sign(keypair, <<j.protected, ".", j.payload>>))

\* C16 witness: an empty-payload request of acc.rs and a request with payload.
C16_Witness ==
  /\ \E i \in 1..Len(log) : log[i].step = "fetch_auth_challenges"
  /\ \E i \in 1..Len(log) : log[i].step = "finalize_order"

\* C17: the finalize request carries b64url of the DER of the caller's CSR if
\* one was supplied, and otherwise of a CSR with CN = the domain, made with
\* the certificate key pair and not the account key.
C17_CsrSelection ==
  \A i \in 1..Len(log) :
    log[i].step = "finalize_order" =>
      LET built == [subject |-> [CN |-> Domain],
                    pubkey |-> keypair_for_cert.public,
                    signed_by |-> keypair_for_cert.private]
          csr   == IF optional_csr.some THEN optional_csr.csr ELSE built
      IN /\ JwsOf(log[i]).payload =
              b64(to_string_pretty([csr |-> b64(<<"der", csr>>)]))
         /\ ~optional_csr.some =>
              keypair \notin {csr.pubkey, csr.signed_by}

\* C17 witness: a finalize request for an order with a caller-supplied CSR.
C17_Witness ==
  /\ optional_csr = Some(UserCsr)
  /\ \E i \in 1..Len(log) : log[i].step = "finalize_order"

\* C18: the authorization fetch is one empty-payload request to the first
\* authorization URL, named in its header; no request goes to any other
\* authorization URL; with no authorization the call returns
\* NoHttpChallengePresent, nothing is sent and the order's nonce is not used.
C18_FirstAuthorizationOnly ==
  /\ \A i \in 1..Len(log) :
       /\ log[i].step = "fetch_auth_challenges" =>
            /\ order.authorizations # <<>>
            /\ log[i].url = order.authorizations[1]
            /\ HeaderOf(log[i]).url = order.authorizations[1]
            /\ JwsOf(log[i]).payload = EmptyString
            /\ \A k \in 1..Len(log) :
                 log[k].step = "fetch_auth_challenges" => k = i
       /\ \A k \in 2..Len(order.authorizations) :
            log[i].url # order.authorizations[k]
  /\ (/\ order # NoOrder
      /\ order.authorizations = <<>>
      /\ pc # "fetch_auth_challenges")
     => (/\ result = Err("NoHttpChallengePresent")
         /\ log[Len(log)].step = "create_new_order"
         /\ \A i \in 1..Len(log) :
              IsSigned(log[i]) => HeaderOf(log[i]).nonce # order.nonce)

\* C18 witness: the fetch for an order that lists two authorizations.
C18_Witness ==
  /\ Len(order.authorizations) = 2
  /\ \E i \in 1..Len(log) : log[i].step = "fetch_auth_challenges"

\* The command lines main rejects.
InvalidArgs ==
  \/ args.csr_path /\ ~(args.private_key /\ args.public_key)
  \/ args.private_key # args.public_key
  \/ args.standalone /\ port80

\* C19: with a CSR path but not both key paths, with exactly one key path, or
\* with --standalone while port 80 is taken, the program never gets past its
\* argument checks: no CA exchange is made and no file is written.
C19_InvalidArgsRejected ==
  InvalidArgs =>
    /\ log = <<>>
    /\ files = {}
    /\ issued = 0
    /\ result = NotReturned
    /\ pc \in {"main", "load_keypair", "load_csr", "check_standalone",
               "exit_error", "panic"}

\* C19 witness: the run has exited on --standalone with port 80 taken, after
\* its key and CSR checks passed.
C19_Witness ==
  /\ pc = "exit_error"
  /\ args.standalone /\ port80
  /\ args.private_key = args.public_key
  /\ args.csr_path => args.private_key

\* C20: a run that ends well has written exactly my_cert.crt and
\* cert_chain.crt, plus priv.pem and pub.pem if and only if no public key
\* path was given.
C20_PersistedOutput ==
  pc = "done" =>
    /\ result.ok
    /\ files = {"my_cert.crt", "cert_chain.crt"}
               \cup (IF args.public_key THEN {} ELSE {"priv.pem", "pub.pem"})

\* C20 witness: a finished run that was given its key pair.
C20_Witness ==
  /\ pc = "done"
  /\ args.public_key
  /\ files = {"my_cert.crt", "cert_chain.crt"}

\* C21: no two signed requests of a run carry the same nonce in their
\* protected header; the nonce create_new_order stored on the order is the
\* one the authorization fetch carries, and the finalize request carries
\* another one.
C21_NonceSingleUse ==
  \A i \in 1..Len(log) :
    IsSigned(log[i]) =>
      /\ \A k \in 1..Len(log) :
           (IsSigned(log[k]) /\ k # i)
           => HeaderOf(log[k]).nonce # HeaderOf(log[i]).nonce
      /\ log[i].step = "fetch_auth_challenges"
         => HeaderOf(log[i]).nonce = order.nonce
      /\ log[i].step = "finalize_order"
         => HeaderOf(log[i]).nonce # order.nonce

\* C21 witness: a run that has polled twice and sent its download request,
\* seven or more signed requests in all.
C21_Witness ==
  /\ \E i \in 1..Len(log) : log[i].step = "download_certificate"
  /\ \E i, k \in 1..Len(log) :
       /\ i # k
       /\ log[i].step = "poll_authorization"
       /\ log[k].step = "poll_authorization"

\* The URL each request of acc.rs is meant for.
TargetUrl(step) ==
  CASE step = "create_account" -> dir_infos.new_account
    [] step = "create_new_order" -> dir_infos.new_order
    [] step = "fetch_auth_challenges" -> order.authorizations[1]
    [] step = "finalize_order" -> order.finalize

\* C22: for every request create_account, create_new_order,
\* fetch_auth_challenges and finalize_order sign, the `url` of the protected
\* header is the URL the request is POSTed to.
C22_HeaderUrlIsTarget ==
  \A i \in 1..Len(log) :
    log[i].step \in AccSteps =>
      /\ log[i].method = "POST"
      /\ log[i].url = TargetUrl(log[i].step)
      /\ HeaderOf(log[i]).url = log[i].url

\* C22 witness: each of the four functions has sent its request.
C22_Witness ==
  \A s \in AccSteps :
    \E i \in 1..Len(log) :
      log[i].step = s /\ HeaderOf(log[i]).url = TargetUrl(s)

\* The key a JWS envelope was signed with, and the CSR a finalize request
\* carries.
SignerOf(e) == JwsOf(e).signature[2][2]
CsrOf(e)    == JwsOf(e).payload[2][2].csr[2][2]

\* C23: every JWS of a run is signed with the account key generate_rsa_key
\* made in that run, which is also the key of the jwk; the certificate key
\* pair signs no JWS; a CSR built by finalize_order holds the certificate
\* public key and is signed with the certificate private key, never the
\* account key.
C23_KeySeparation ==
  /\ pc \in {"main", "load_keypair", "load_csr", "check_standalone",
             "generate_rsa_key", "exit_error"} => keypair = "" /\ log = <<>>
  /\ \A i \in 1..Len(log) :
       IsSigned(log[i]) =>
         /\ keypair = "account-key"
         /\ SignerOf(log[i]) = keypair
         /\ SignerOf(log[i]) \notin {keypair_for_cert.private,
                                     keypair_for_cert.public}
         /\ log[i].step = "create_account"
            => HeaderOf(log[i]).jwk = jwk(keypair)
         /\ log[i].step = "finalize_order"
            => /\ CsrOf(log[i]).signed_by # keypair
               /\ CsrOf(log[i]).pubkey # keypair
               /\ ~optional_csr.some
                  => /\ CsrOf(log[i]).signed_by = keypair_for_cert.private
                     /\ CsrOf(log[i]).pubkey = keypair_for_cert.public

\* C23 witness: a finalize request whose CSR was built from a generated
\* certificate key pair, after the other signed requests.
C23_Witness ==
  /\ keypair_for_cert = GeneratedKeypair
  /\ \E i \in 1..Len(log) :
       /\ log[i].step = "finalize_order"
       /\ CsrOf(log[i]).signed_by = GeneratedKeypair.private
       /\ SignerOf(log[i]) = "account-key"
====
